---- MODULE Spec2Model ----
(***************************************************************************)
(* Event store of the Kentucky flood StoryMap (src/app.py): the merge of   *)
(* the built-in events with data/events.yaml at load time, and the         *)
(* contribution path that fetches the YAML blob from GitHub, upserts the   *)
(* submitted event by id and puts the blob back.                           *)
(*                                                                         *)
(* A Python dict is a TLA+ record whose DOMAIN is the set of keys present. *)
(* An insertion-ordered dict keyed by id is the sequence of its values in  *)
(* insertion order (every value carries its key in the field id).          *)
(* Record fields other than id, name, year, summary and geojson are merged *)
(* and serialized like summary and are left out.                           *)
(*                                                                         *)
(* The submission handler is two steps, Submit and Put, split where the    *)
(* answer of the GET has arrived and the PUT has not reached GitHub yet:   *)
(* another client's write can fall in between.                             *)
(***************************************************************************)
EXTENDS Integers, Sequences, FiniteSets, TLC

VARIABLES
    extFile,        \* content of the local data/events.yaml read by load_events
    EVENTS,         \* the list load_events returned (<<>> before the script ran)
    loadStatus,     \* "init" | "ok" | "warned" | "raised": how load_events ended
    yaml_text,      \* the YAML document contributions are applied to (pure-function runs)
    nContrib,       \* contributions applied to yaml_text so far
    lastEvent,      \* the record of the last contribution applied to yaml_text
    GITHUB_TOKEN,   \* truthiness of the configured token
    GITHUB_REPO,    \* truthiness of the configured repository
    remote,         \* the blob at GITHUB_PATH on GitHub: [exists, text]
    pc,             \* position of the submission handler: "idle" | "fetched"
    form,           \* the submitted form fields of the current / last submission
    event_obj,      \* build_event_payload's result (NoEvent stands for None)
    sha,            \* sha taken from the GET body (NoSha stands for None)
    existing_yaml,  \* text decoded from the GET body
    fetched,        \* the blob a 200 answer of the GET stood for (NoRemote otherwise)
    getStatus,      \* status of the GET of this submission ("none": not issued)
    putStatus,      \* status of the PUT of this submission ("none": not issued)
    putBody,        \* the text carried by the PUT of this submission
    putSha,         \* the sha carried by the PUT of this submission (NoSha: omitted)
    outcome         \* what the handler showed the user: [kind, msg, status]

storeVars == <<extFile, EVENTS, loadStatus, yaml_text, nContrib, lastEvent>>
netVars == <<GITHUB_TOKEN, GITHUB_REPO, remote, pc, form, event_obj, sha,
             existing_yaml, fetched, getStatus, putStatus, putBody, putSha,
             outcome>>
vars == <<storeVars, netVars>>

-----------------------------------------------------------------------------
(* Bounds *)

MaxExtLen == 2      \* longest list in an external YAML document
MaxContrib == 2     \* contributions applied in a pure-function run
MaxBlobLen == 1     \* longest list another client writes to the remote blob

-----------------------------------------------------------------------------
(* Records *)

\* A year value that is not a number (a YAML string or null): comparing it
\* with an int in list.sort raises TypeError.
StrYear == -1

FC(features) == [type |-> "FeatureCollection", features |-> features]

BUILTIN_EVENTS ==
    << [id |-> "1937_ohio_river_flood", name |-> "1937 Ohio River Flood",
        year |-> 1937, summary |-> "Historic Ohio River basin flood",
        geojson |-> FC(<<"1937 Ohio River Flood">>)],
       [id |-> "1978_louisville_flash_flood", name |-> "1978 Louisville Flash Flood",
        year |-> 1978, summary |-> "Intense rainfall",
        geojson |-> FC(<<"1978 Louisville Flash Flood">>)],
       [id |-> "2021_winter_floods", name |-> "2021 Winter Floods",
        year |-> 2021, summary |-> "Late-winter storms",
        geojson |-> FC(<<"2021 Winter Floods">>)] >>

\* A YAML list entry that is not a mapping.
ScalarEntry == [scalar |-> "note"]

IsDict(e) == "scalar" \notin DOMAIN e

\* "k in e"
HasKey(e, k) == k \in DOMAIN e

\* The entries of the lists other clients write to the remote blob.
BlobEntries ==
    { [id |-> "1978_flood_a", name |-> "Flood A", year |-> 1978, summary |-> "old"],
      [name |-> "no id", year |-> 1900],
      [id |-> "bad_year", year |-> StrYear] }

\* The entries an external YAML list is drawn from.
ExtEntries ==
    { \* overrides a built-in with some keys only, one of them nested
      [id |-> "1937_ohio_river_flood", summary |-> "revised",
       geojson |-> [type |-> "FeatureCollection"]],
      \* overrides the same built-in, moving it to another year
      [id |-> "1937_ohio_river_flood", year |-> 2021, name |-> "renamed"],
      \* new ids, same year as a built-in
      [id |-> "1978_flood_a", name |-> "Flood A", year |-> 1978, summary |-> "old"],
      [id |-> "1978_new_b", year |-> 1978],
      \* no year
      [id |-> "undated"],
      \* no id
      [name |-> "no id", year |-> 1900],
      ScalarEntry,
      \* year is not a number
      [id |-> "bad_year", year |-> StrYear] }

-----------------------------------------------------------------------------
(* YAML documents *)

RECURSIVE SeqsUpTo(_, _)
SeqsUpTo(S, n) ==
    IF n = 0 THEN {<<>>}
    ELSE LET shorter == SeqsUpTo(S, n - 1)
         IN shorter \cup {Append(s, x) : s \in {t \in shorter : Len(t) = n - 1}, x \in S}

\* No file at the path.
NoFile == [doc |-> "nofile"]
\* Text that is empty or whitespace.
EmptyText == [doc |-> "empty"]
\* Text that is not YAML.
InvalidText == [doc |-> "invalid"]
\* A YAML document whose top level is a mapping.
MappingText == [doc |-> "mapping"]
\* A YAML document whose top level is a list.
ListText(items) == [doc |-> "list", items |-> items]

ExtTexts ==
    {EmptyText, InvalidText, MappingText}
        \cup {ListText(s) : s \in SeqsUpTo(ExtEntries, MaxExtLen)}

ExtFiles == {NoFile} \cup ExtTexts

\* The texts other clients put at GITHUB_PATH.
BlobTexts ==
    {EmptyText, InvalidText, MappingText}
        \cup {ListText(s) : s \in SeqsUpTo(BlobEntries, MaxBlobLen)}

\* yaml.safe_load: raises on invalid text, None on empty text.
safe_load(text) ==
    CASE text.doc = "invalid" -> [raised |-> TRUE]
      [] text.doc = "empty"   -> [raised |-> FALSE, none |-> TRUE, list |-> FALSE]
      [] text.doc = "mapping" -> [raised |-> FALSE, none |-> FALSE, list |-> FALSE]
      [] text.doc = "list"    -> [raised |-> FALSE, none |-> FALSE, list |-> TRUE,
                                  items |-> text.items]

\* yaml.safe_dump of a list.
safe_dump(list) == ListText(list)

\* "yaml_text.strip()" is truthy
StripTruthy(text) == text.doc # "empty"

-----------------------------------------------------------------------------
(* list.sort(key=lambda x: x.get("year", 0)) *)

YearKey(x) == IF HasKey(x, "year") THEN x.year ELSE 0

\* Comparing a number with a str/None key raises TypeError.
SortRaises(list) ==
    \E i, j \in 1..Len(list) : YearKey(list[i]) = StrYear /\ YearKey(list[j]) # StrYear

\* Mutant: an element is inserted before the elements with an equal key.
RECURSIVE InsertSortedUnstable(_, _)
InsertSortedUnstable(sorted, x) ==
    IF sorted = <<>> THEN <<x>>
    ELSE LET n == Len(sorted) IN
         IF YearKey(sorted[n]) < YearKey(x) THEN Append(sorted, x)
         ELSE Append(InsertSortedUnstable(SubSeq(sorted, 1, n - 1), x), sorted[n])

\* Insertion of x after the elements whose key is not greater: the sort is stable.
RECURSIVE InsertSorted(_, _)
InsertSorted(sorted, x) ==
    IF sorted = <<>> THEN <<x>>
    ELSE LET n == Len(sorted) IN
         IF YearKey(sorted[n]) <= YearKey(x) THEN Append(sorted, x)
         ELSE Append(InsertSorted(SubSeq(sorted, 1, n - 1), x), sorted[n])

RECURSIVE SortByYear(_)
SortByYear(list) ==
    IF list = <<>> THEN <<>>
    ELSE InsertSorted(SortByYear(SubSeq(list, 1, Len(list) - 1)), list[Len(list)])

-----------------------------------------------------------------------------
(* Insertion-ordered dict keyed by id *)

\* Mutant: an existing key is not looked up.
DictSetAlwaysAppend(by_id, val) == Append(by_id, val)

\* by_id[key] = val, where val.id = key
DictSet(by_id, val) ==
    IF \E i \in 1..Len(by_id) : by_id[i].id = val.id
    THEN [i \in 1..Len(by_id) |-> IF by_id[i].id = val.id THEN val ELSE by_id[i]]
    ELSE Append(by_id, val)

\* by_id.get(key, {})
DictGet(by_id, key) ==
    IF \E i \in 1..Len(by_id) : by_id[i].id = key
    THEN by_id[CHOOSE i \in 1..Len(by_id) : by_id[i].id = key]
    ELSE [k \in {} |-> 0]

\* Mutant: the override replaces the record.
DictMergeReplace(a, b) == b

\* {**a, **b}
DictMerge(a, b) ==
    [k \in DOMAIN a \cup DOMAIN b |-> IF k \in DOMAIN b THEN b[k] ELSE a[k]]

-----------------------------------------------------------------------------
(* load_events *)

\* for e in extra: if isinstance(e, dict) and "id" in e: by_id[e["id"]] = {**by_id.get(..), **e}
RECURSIVE MergeExtra(_, _)
MergeExtra(by_id, extra) ==
    IF extra = <<>> THEN by_id
    ELSE LET e == Head(extra) IN
         MergeExtra(IF IsDict(e) /\ HasKey(e, "id")
                    THEN DictSet(by_id, DictMerge(DictGet(by_id, e.id), e))
                    ELSE by_id,
                    Tail(extra))

\* The list before the final sort, and whether the except branch warned.
LoadMerged(file) ==
    IF file = NoFile THEN [warned |-> FALSE, events |-> BUILTIN_EVENTS]
    ELSE LET y == safe_load(file) IN
         IF y.raised THEN [warned |-> TRUE, events |-> BUILTIN_EVENTS]
         ELSE IF y.list
              THEN [warned |-> FALSE, events |-> MergeExtra(BUILTIN_EVENTS, y.items)]
              ELSE [warned |-> FALSE, events |-> BUILTIN_EVENTS]

load_events(file) ==
    LET m == LoadMerged(file) IN
    IF SortRaises(m.events) THEN [status |-> "raised", events |-> <<>>]
    ELSE [status |-> IF m.warned THEN "warned" ELSE "ok",
          events |-> SortByYear(m.events)]

-----------------------------------------------------------------------------
(* Submission form *)

Names == {"", "Flood A"}
Years == {1978, 2022}
Summaries == {"", "new"}
GeoTexts ==
    { "",
      "{not json",
      "[1]",
      "{\"type\":\"Feature\"}",
      "{\"type\":\"FeatureCollection\",\"features\":\"x\"}",
      "{\"type\":\"FeatureCollection\",\"features\":[]}",
      "{\"type\":\"FeatureCollection\",\"features\":[{\"type\":\"Feature\"}]}" }

FilledForm ==
    [name |-> "Flood A", year |-> 2022, summary |-> "new",
     geojson_text |-> "{\"type\":\"FeatureCollection\",\"features\":[{\"type\":\"Feature\"}]}"]

\* The submitted forms: a filled form with at most one field changed.
Forms ==
    {[FilledForm EXCEPT !.name = n] : n \in Names}
        \cup {[FilledForm EXCEPT !.year = y] : y \in Years}
        \cup {[FilledForm EXCEPT !.summary = t] : t \in Summaries}
        \cup {[FilledForm EXCEPT !.geojson_text = g] : g \in GeoTexts}

NoForm == [name |-> "", year |-> 2022, summary |-> "", geojson_text |-> ""]

\* "if s" on a str
Truthy(s) == s # ""

\* json.loads on the texts of GeoTexts: raised, or the parsed value with
\* isinstance(v, dict), v.get("type") and isinstance(v.get("features"), list).
json_loads(txt) ==
    CASE txt = "" -> [raised |-> TRUE]
      [] txt = "{not json" -> [raised |-> TRUE]
      [] txt = "[1]" -> [raised |-> FALSE, dict |-> FALSE]
      [] txt = "{\"type\":\"Feature\"}" ->
            [raised |-> FALSE, dict |-> TRUE, type |-> "Feature",
             featuresList |-> FALSE, value |-> [type |-> "Feature"]]
      [] txt = "{\"type\":\"FeatureCollection\",\"features\":\"x\"}" ->
            [raised |-> FALSE, dict |-> TRUE, type |-> "FeatureCollection",
             featuresList |-> FALSE, value |-> FC("x")]
      [] txt = "{\"type\":\"FeatureCollection\",\"features\":[]}" ->
            [raised |-> FALSE, dict |-> TRUE, type |-> "FeatureCollection",
             featuresList |-> TRUE, value |-> FC(<<>>)]
      [] txt = "{\"type\":\"FeatureCollection\",\"features\":[{\"type\":\"Feature\"}]}" ->
            [raised |-> FALSE, dict |-> TRUE, type |-> "FeatureCollection",
             featuresList |-> TRUE, value |-> FC(<<"Feature">>)]

\* Python None for a dict-valued result.
NoEvent == [none |-> TRUE]

\* Mutant: features is not checked to be a list.
validate_geojson_any_features(txt) ==
    LET gj == json_loads(txt) IN
    IF gj.raised THEN NoEvent
    ELSE IF gj.dict /\ gj.type = "FeatureCollection" THEN gj.value ELSE NoEvent

validate_geojson(txt) ==
    LET gj == json_loads(txt) IN
    IF gj.raised THEN NoEvent
    ELSE IF gj.dict /\ gj.type = "FeatureCollection" /\ gj.featuresList
         THEN gj.value
         ELSE NoEvent

\* slugify on the strings f"{year}_{name}" of the form values.
slugify(year, name) ==
    CASE name = "Flood A" -> ToString(year) \o "_flood_a"
      [] name = ""        -> ToString(year)

\* Mutant: the summary is not required.
MissingRequiredButSummary(f) == ~(Truthy(f.name) /\ Truthy(f.geojson_text))

\* "not (name and summary and geojson_text)"
MissingRequired(f) == ~(Truthy(f.name) /\ Truthy(f.summary) /\ Truthy(f.geojson_text))

MsgMissing == "Please provide at least Event name, Summary, and GeoJSON."
MsgGeoJSON == "GeoJSON must be a valid FeatureCollection with a features list."
MsgDisabled == "Submission disabled: missing GITHUB_TOKEN and/or GITHUB_REPO"
MsgRead == "GitHub read error"
MsgWrite == "GitHub write error"
MsgFailed == "Submission failed"
MsgSuccess == "Submitted! Your event was written to GitHub."

NoOutcome == [kind |-> "none", msg |-> "", status |-> "none"]
Error(msg, status) == [kind |-> "error", msg |-> msg, status |-> status]

\* The returned payload and the st.error shown, if any.
build_event_payload(f) ==
    IF MissingRequired(f)
    THEN [event |-> NoEvent, shown |-> Error(MsgMissing, "none")]
    ELSE LET geojson == validate_geojson(f.geojson_text) IN
         IF geojson = NoEvent
         THEN [event |-> NoEvent, shown |-> Error(MsgGeoJSON, "none")]
         ELSE [event |-> [id |-> slugify(f.year, f.name), name |-> f.name,
                          year |-> f.year, summary |-> f.summary,
                          geojson |-> geojson],
               shown |-> NoOutcome]

\* The payloads the form can produce.
EventObjs == {build_event_payload(f).event : f \in Forms} \ {NoEvent}

-----------------------------------------------------------------------------
(* append_event_to_yaml_text *)

\* data: the parsed list, [] when the text is blank, unparsable or not a list
ParsedData(text) ==
    IF ~StripTruthy(text) THEN <<>>
    ELSE LET y == safe_load(text) IN
         IF y.raised THEN <<>>
         ELSE IF y.list THEN y.items ELSE <<>>

\* {e.get("id"): e for e in data if isinstance(e, dict) and "id" in e}
RECURSIVE ById(_)
ById(data) ==
    IF data = <<>> THEN <<>>
    ELSE LET e == data[Len(data)]
             rest == ById(SubSeq(data, 1, Len(data) - 1))
         IN IF IsDict(e) /\ HasKey(e, "id") THEN DictSet(rest, e) ELSE rest

\* Mutant: the event is appended without looking its id up.
UpsertListAppend(text, ev) == Append(ById(ParsedData(text)), ev)

\* new_list before the sort
UpsertList(text, ev) == DictSet(ById(ParsedData(text)), ev)

AppendRaises(text, ev) == SortRaises(UpsertList(text, ev))

\* The returned text (defined when the sort does not raise).
append_event_to_yaml_text(text, ev) == safe_dump(SortByYear(UpsertList(text, ev)))

-----------------------------------------------------------------------------
(* GitHub Contents API, as the handler sees it *)

NoRemote == [exists |-> FALSE, text |-> EmptyText]

\* The blob sha identifies the content.
NoSha == [none |-> TRUE]
ShaOf(text) == [blob |-> text]

\* base64.b64encode / base64.b64decode
b64encode(text) == [b64 |-> text]
b64decode(content) == content.b64

\* The "content" of a 200 body: the encoded text, or "" (which is also what
\* the API sends for a blob too large to inline).
GetContents(r) == {b64encode(r.text), b64encode(EmptyText)}

\* Answers to the GET: a status with a body, or a transport exception.  A 404
\* is also what a token without access to the repository gets.
GetResponses(r) ==
    {[status |-> "exception"], [status |-> "500"], [status |-> "404"]}
        \cup (IF r.exists
              THEN {[status |-> "200", sha |-> ShaOf(r.text), content |-> c] :
                        c \in GetContents(r)}
              ELSE {})

\* Answers to the PUT of a text with an optional sha, and whether the blob
\* was replaced.  A transport exception may follow a write that was applied.
PutAccepted(r, s) == IF r.exists THEN s = ShaOf(r.text) ELSE s = NoSha

PutResponses(r, s) ==
    {[status |-> "exception", applied |-> FALSE], [status |-> "500", applied |-> FALSE]}
        \cup (IF PutAccepted(r, s)
              THEN {[status |-> IF r.exists THEN "200" ELSE "201", applied |-> TRUE],
                    [status |-> "exception", applied |-> TRUE]}
              ELSE IF s = NoSha
                   THEN {[status |-> "422", applied |-> FALSE]}
                   ELSE {[status |-> "409", applied |-> FALSE]})

-----------------------------------------------------------------------------
(* Submission handler *)

\* Mutant: the guard tests the token only.
WriteConfiguredTokenOnly(token, repo) == token

\* "GITHUB_TOKEN and GITHUB_REPO"
WriteConfigured(token, repo) == token /\ repo

\* The GET answer ends the handler: st.error + st.stop() on a status other
\* than 200 and 404 (st.stop raises a BaseException, which "except Exception"
\* lets through), the except branch on a transport exception.
\* Mutant: only a transport exception ends the handler.
FetchAbortsOnExceptionOnly(status) == status = "exception"

FetchAborts(status) == status \notin {"200", "404"}

FetchOutcome(status) ==
    IF status = "exception" THEN Error(MsgFailed, "none") ELSE Error(MsgRead, status)

\* Mutant: the write error is shown without the status code.
WriteOutcomeWithoutStatus(status) ==
    IF status \in {"200", "201"} THEN [kind |-> "success", msg |-> MsgSuccess, status |-> "none"]
    ELSE IF status = "exception" THEN Error(MsgFailed, "none")
    ELSE Error(MsgWrite, "none")

\* What is shown for the PUT's answer.
WriteOutcome(status) ==
    IF status \in {"200", "201"} THEN [kind |-> "success", msg |-> MsgSuccess, status |-> "none"]
    ELSE IF status = "exception" THEN Error(MsgFailed, "none")
    ELSE Error(MsgWrite, status)

\* "if sha: payload['sha'] = sha"
PayloadSha(s) == s

\* The handler from the submit button to the answer of the GET.
Submit(f) ==
    /\ pc = "idle"
    /\ form' = f
    /\ putStatus' = "none"
    /\ putBody' = EmptyText
    /\ putSha' = NoSha
    /\ LET built == build_event_payload(f) IN
       /\ event_obj' = built.event
       /\ IF built.event = NoEvent
          THEN /\ outcome' = built.shown
               /\ getStatus' = "none"
               /\ UNCHANGED <<pc, sha, existing_yaml, fetched>>
          ELSE IF ~WriteConfigured(GITHUB_TOKEN, GITHUB_REPO)
          THEN /\ outcome' = Error(MsgDisabled, "none")
               /\ getStatus' = "none"
               /\ UNCHANGED <<pc, sha, existing_yaml, fetched>>
          ELSE \E resp \in GetResponses(remote) :
                 /\ getStatus' = resp.status
                 /\ fetched' = IF resp.status = "200" THEN remote ELSE NoRemote
                 /\ IF FetchAborts(resp.status)
                    THEN /\ outcome' = FetchOutcome(resp.status)
                         /\ UNCHANGED <<pc, sha, existing_yaml>>
                    ELSE /\ outcome' = NoOutcome
                         /\ pc' = "fetched"
                         /\ sha' = IF resp.status = "200" THEN resp.sha ELSE NoSha
                         /\ existing_yaml' =
                              IF resp.status = "200" /\ resp.content # b64encode(EmptyText)
                              THEN b64decode(resp.content)
                              ELSE EmptyText
    /\ UNCHANGED <<GITHUB_TOKEN, GITHUB_REPO, remote>>
    /\ UNCHANGED storeVars

\* The rest of the handler: upsert, encode, PUT, and the message shown.
Put ==
    /\ pc = "fetched"
    /\ pc' = "idle"
    /\ IF AppendRaises(existing_yaml, event_obj)
       THEN /\ outcome' = Error(MsgFailed, "none")
            /\ UNCHANGED <<remote, putStatus, putBody, putSha>>
       ELSE LET new_yaml == append_event_to_yaml_text(existing_yaml, event_obj)
                new_b64 == b64encode(new_yaml)
            IN \E put \in PutResponses(remote, PayloadSha(sha)) :
                 /\ putStatus' = put.status
                 /\ putBody' = b64decode(new_b64)
                 /\ putSha' = PayloadSha(sha)
                 /\ remote' = IF put.applied
                              THEN [exists |-> TRUE, text |-> b64decode(new_b64)]
                              ELSE remote
                 /\ outcome' = WriteOutcome(put.status)
    /\ UNCHANGED <<GITHUB_TOKEN, GITHUB_REPO, form, event_obj, sha, existing_yaml,
                   fetched, getStatus>>
    /\ UNCHANGED storeVars

\* Another client (or a collaborator's commit) replaces the blob.
OtherWriter ==
    /\ \E t \in BlobTexts : remote' = [exists |-> TRUE, text |-> t]
    /\ UNCHANGED <<GITHUB_TOKEN, GITHUB_REPO, pc, form, event_obj, sha, existing_yaml,
                   fetched, getStatus, putStatus, putBody, putSha, outcome>>
    /\ UNCHANGED storeVars

NetInit ==
    /\ GITHUB_TOKEN \in BOOLEAN
    /\ GITHUB_REPO \in BOOLEAN
    /\ remote \in {NoRemote} \cup {[exists |-> TRUE, text |-> t] : t \in BlobTexts}
    /\ pc = "idle"
    /\ form = NoForm
    /\ event_obj = NoEvent
    /\ sha = NoSha
    /\ existing_yaml = EmptyText
    /\ fetched = NoRemote
    /\ getStatus = "none"
    /\ putStatus = "none"
    /\ putBody = EmptyText
    /\ putSha = NoSha
    /\ outcome = NoOutcome

\* The script has run load_events with no data/events.yaml on disk.
Init ==
    /\ extFile = NoFile
    /\ EVENTS = load_events(NoFile).events
    /\ loadStatus = load_events(NoFile).status
    /\ yaml_text = EmptyText
    /\ nContrib = 0
    /\ lastEvent = NoEvent
    /\ NetInit

Next ==
    \/ \E f \in Forms : Submit(f)
    \/ Put
    \/ OtherWriter

Spec == Init /\ [][Next]_vars

-----------------------------------------------------------------------------
(* The store operations as pure functions of the document data/events.yaml *)

LoadEvents ==
    /\ loadStatus = "init"
    /\ LET r == load_events(extFile) IN
       /\ EVENTS' = r.events
       /\ loadStatus' = r.status
    /\ UNCHANGED <<extFile, yaml_text, nContrib, lastEvent>>
    /\ UNCHANGED netVars

Contribute(ev) ==
    /\ nContrib < MaxContrib
    /\ IF AppendRaises(yaml_text, ev)
       THEN UNCHANGED <<yaml_text, nContrib, lastEvent>>
       ELSE /\ yaml_text' = append_event_to_yaml_text(yaml_text, ev)
            /\ nContrib' = nContrib + 1
            /\ lastEvent' = ev
    /\ UNCHANGED <<extFile, EVENTS, loadStatus>>
    /\ UNCHANGED netVars

StoreInit ==
    /\ extFile \in ExtFiles
    /\ EVENTS = <<>>
    /\ loadStatus = "init"
    /\ yaml_text = (IF extFile = NoFile THEN EmptyText ELSE extFile)
    /\ nContrib = 0
    /\ lastEvent = NoEvent
    /\ NetInit
    /\ GITHUB_TOKEN = FALSE
    /\ GITHUB_REPO = FALSE
    /\ remote = NoRemote

StoreNext ==
    \/ LoadEvents
    \/ \E ev \in EventObjs : Contribute(ev)

SpecStore == StoreInit /\ [][StoreNext]_vars

-----------------------------------------------------------------------------
(* Claims about the contribution path (Spec) *)

\* The records of a blob: the mappings of its top-level list.
BlobRecords(r) ==
    IF r.exists /\ r.text.doc = "list"
    THEN {r.text.items[i] : i \in {j \in 1..Len(r.text.items) : IsDict(r.text.items[j])}}
    ELSE {}

Items(text) == {text.items[i] : i \in 1..Len(text.items)}

PutIssued == putStatus # "none"

\* C1: whenever a PUT is issued, every record of the blob that was fetched is
\* in the text the PUT carries, except a record with the id of the contributed
\* record, which the contributed record replaces.
C1_FetchedRecordsKept ==
    PutIssued =>
        /\ event_obj \in Items(putBody)
        /\ \A e \in BlobRecords(fetched) :
              \/ HasKey(e, "id") /\ e.id = event_obj.id
              \/ e \in Items(putBody)

\* C2: a GET that ends in a status other than 200 and 404, or in a transport
\* exception, ends the handler with an error shown and no PUT; after a 404 the
\* merge starts from the empty text and the PUT is issued without a sha.
C2_FetchFailureAbortsAbsentStartsEmpty ==
    /\ getStatus \notin {"none", "200", "404"} =>
          /\ pc = "idle"
          /\ ~PutIssued
          /\ outcome.kind = "error"
    /\ (getStatus = "404" /\ pc = "fetched") =>
          /\ existing_yaml = EmptyText
          /\ sha = NoSha
    /\ (getStatus = "404" /\ pc = "idle") =>
          /\ PutIssued
          /\ putSha = NoSha
          /\ putBody = ListText(<<event_obj>>)

C2_Witness ==
    /\ getStatus = "500"
    /\ pc = "idle"
    /\ outcome = Error(MsgRead, "500")
    /\ event_obj # NoEvent

\* C3: when the handler has finished with an unsuccessful PUT, what it showed
\* is the conflict message (the write error carrying status 409) exactly when
\* the PUT was answered 409: no other unsuccessful PUT shows the same.
C3_ConflictShownDistinctly ==
    (pc = "idle" /\ PutIssued /\ putStatus \notin {"200", "201"}) =>
        (outcome = Error(MsgWrite, "409") <=> putStatus = "409")

C3_Witness ==
    /\ pc = "idle"
    /\ putStatus = "409"
    /\ putSha # NoSha
    /\ putSha # ShaOf(remote.text)

\* The geojson texts that are a FeatureCollection with a features list, and
\* those among them whose list is not empty.
FeatureCollectionTexts ==
    { "{\"type\":\"FeatureCollection\",\"features\":[]}",
      "{\"type\":\"FeatureCollection\",\"features\":[{\"type\":\"Feature\"}]}" }
NonEmptyFeatureCollectionTexts ==
    { "{\"type\":\"FeatureCollection\",\"features\":[{\"type\":\"Feature\"}]}" }

\* C4 as claimed: a submission whose geojson text is not a FeatureCollection
\* with a non-empty features list yields no payload and no PUT.
C4_EmptyFeaturesRejected ==
    (pc = "idle" /\ form.geojson_text \notin NonEmptyFeatureCollectionTexts) =>
        (event_obj = NoEvent /\ ~PutIssued)

\* C4 amended: a submission whose geojson text is not a FeatureCollection with
\* a features list (empty or not) yields no payload, an error and no GET or
\* PUT; the text with "features": [] is accepted.
C4_NotFeatureCollectionRejected ==
    /\ form.geojson_text \notin FeatureCollectionTexts =>
          /\ event_obj = NoEvent
          /\ getStatus = "none"
          /\ ~PutIssued
          /\ pc = "idle"
          /\ outcome \in {NoOutcome, Error(MsgMissing, "none"), Error(MsgGeoJSON, "none")}
    /\ (form.geojson_text = "{\"type\":\"FeatureCollection\",\"features\":[]}"
            /\ form.name # "" /\ form.summary # "") =>
          /\ event_obj # NoEvent
          /\ event_obj.geojson = FC(<<>>)

C4_Witness ==
    /\ form.geojson_text = "{\"type\":\"FeatureCollection\",\"features\":\"x\"}"
    /\ outcome = Error(MsgGeoJSON, "none")
    /\ event_obj = NoEvent
    /\ GITHUB_TOKEN /\ GITHUB_REPO

\* C5: a submission with an empty name, summary or geojson text shows the
\* missing-fields error, returns no payload, issues no GET and no PUT, and
\* leaves EVENTS and the remote blob as they were.
C5_MissingFieldRejected ==
    [][\A f \in Forms :
          ((f.name = "" \/ f.summary = "" \/ f.geojson_text = "") /\ Submit(f)) =>
              /\ event_obj' = NoEvent
              /\ outcome' = Error(MsgMissing, "none")
              /\ getStatus' = "none"
              /\ putStatus' = "none"
              /\ pc' = "idle"
              /\ remote' = remote
              /\ EVENTS' = EVENTS]_vars

C5_Witness ==
    /\ form.summary = ""
    /\ form.name # ""
    /\ outcome = Error(MsgMissing, "none")
    /\ remote.exists
    /\ GITHUB_TOKEN /\ GITHUB_REPO

\* C6: with the token or the repository missing no GET and no PUT is ever
\* issued, and a submission that yields a payload shows the disabled message.
C6_UnconfiguredNeverWrites ==
    ~(GITHUB_TOKEN /\ GITHUB_REPO) =>
        /\ getStatus = "none"
        /\ ~PutIssued
        /\ pc = "idle"
        /\ event_obj # NoEvent => outcome = Error(MsgDisabled, "none")

C6_Witness ==
    /\ GITHUB_TOKEN /\ ~GITHUB_REPO
    /\ event_obj # NoEvent
    /\ outcome = Error(MsgDisabled, "none")

-----------------------------------------------------------------------------
(* Claims about the store operations (SpecStore) *)

Loaded == loadStatus \in {"ok", "warned"}

UniqueIds(list) ==
    \A i, j \in 1..Len(list) :
        (HasKey(list[i], "id") /\ HasKey(list[j], "id") /\ list[i].id = list[j].id) => i = j

\* The mappings with an id of the external file, in file order.
ExtRecords ==
    IF extFile.doc = "list"
    THEN SelectSeq(extFile.items, LAMBDA e : IsDict(e) /\ HasKey(e, "id"))
    ELSE <<>>

BuiltinIds == {BUILTIN_EVENTS[i].id : i \in 1..Len(BUILTIN_EVENTS)}
Builtin(id) == BUILTIN_EVENTS[CHOOSE i \in 1..Len(BUILTIN_EVENTS) : BUILTIN_EVENTS[i].id = id]
Merged(id) == EVENTS[CHOOSE i \in 1..Len(EVENTS) : EVENTS[i].id = id]

\* C7: the list load_events returns holds no two records with the same id,
\* and after a contribution the serialized list holds no two records with the
\* same id, every entry has an id, and the contributed record is in it.
C7_IdsUnique ==
    /\ Loaded => /\ UniqueIds(EVENTS)
                 /\ \A i \in 1..Len(EVENTS) : HasKey(EVENTS[i], "id")
    /\ nContrib > 0 =>
          /\ yaml_text.doc = "list"
          /\ UniqueIds(yaml_text.items)
          /\ \A i \in 1..Len(yaml_text.items) : HasKey(yaml_text.items[i], "id")
          /\ lastEvent \in Items(yaml_text)

C7_Witness ==
    /\ loadStatus = "ok"
    /\ Len(ExtRecords) = 2
    /\ ExtRecords[1].id = ExtRecords[2].id
    /\ ExtRecords[1] # ExtRecords[2]
    /\ ExtRecords[1].id \in BuiltinIds
    /\ nContrib = 2
    /\ Len(yaml_text.items) = 3

\* C8 as claimed: for every external record with the id of a built-in record,
\* the merged record is the built-in record with exactly that record's keys
\* overwritten by that record's values.
C8_MergedIsBuiltinOverwrittenByRecord ==
    Loaded =>
        \A n \in 1..Len(ExtRecords) :
            LET e == ExtRecords[n] IN
            e.id \in BuiltinIds =>
                LET b == Builtin(e.id)
                    m == Merged(e.id)
                IN /\ DOMAIN m = DOMAIN b \cup DOMAIN e
                   /\ \A k \in DOMAIN e : m[k] = e[k]
                   /\ \A k \in DOMAIN b \ DOMAIN e : m[k] = b[k]

\* C8 amended: for every built-in id that external records carry, the merged
\* record has the keys of the built-in record and of those external records;
\* each key has the value of the last external record with that id (in file
\* order) that has the key, whole, and the built-in value if none has it.
C8_MergedIsBuiltinOverwrittenInFileOrder ==
    Loaded =>
        \A id \in BuiltinIds :
            LET b == Builtin(id)
                m == Merged(id)
                over == {n \in 1..Len(ExtRecords) : ExtRecords[n].id = id}
                having(k) == {n \in over : HasKey(ExtRecords[n], k)}
                last(k) == CHOOSE n \in having(k) : \A o \in having(k) : o <= n
            IN /\ DOMAIN m = DOMAIN b \cup UNION {DOMAIN ExtRecords[n] : n \in over}
               /\ \A k \in DOMAIN m :
                     m[k] = IF having(k) = {} THEN b[k] ELSE ExtRecords[last(k)][k]

C8_Witness ==
    /\ loadStatus = "ok"
    /\ Len(ExtRecords) = 2
    /\ ExtRecords[1] = [id |-> "1937_ohio_river_flood", summary |-> "revised",
                        geojson |-> [type |-> "FeatureCollection"]]
    /\ ExtRecords[2].id # "1937_ohio_river_flood"
    /\ Merged("1937_ohio_river_flood") =
          [id |-> "1937_ohio_river_flood", name |-> "1937 Ohio River Flood",
           year |-> 1937, summary |-> "revised",
           geojson |-> [type |-> "FeatureCollection"]]

\* The ids in the order in which they enter the merge mapping: the built-ins
\* in declaration order, then the external records in file order.
InsertionOrder ==
    [i \in 1..Len(BUILTIN_EVENTS) |-> BUILTIN_EVENTS[i].id]
        \o [i \in 1..Len(ExtRecords) |-> ExtRecords[i].id]

FirstInserted(id) ==
    CHOOSE i \in 1..Len(InsertionOrder) :
        /\ InsertionOrder[i] = id
        /\ \A j \in 1..(i - 1) : InsertionOrder[j] # id

\* C9: the list load_events returns is ascending by year (0 for a record
\* without one); records with equal years are in the order in which their ids
\* first entered the merge mapping; without an external file the list holds
\* exactly the built-in records.
C9_SortedByYearStable ==
    Loaded =>
        /\ \A i, j \in 1..Len(EVENTS) :
              i < j =>
                 /\ YearKey(EVENTS[i]) <= YearKey(EVENTS[j])
                 /\ YearKey(EVENTS[i]) = YearKey(EVENTS[j]) =>
                       FirstInserted(EVENTS[i].id) < FirstInserted(EVENTS[j].id)
        /\ {EVENTS[i].id : i \in 1..Len(EVENTS)} =
              {InsertionOrder[i] : i \in 1..Len(InsertionOrder)}
        /\ extFile = NoFile =>
              /\ Len(EVENTS) = Len(BUILTIN_EVENTS)
              /\ \A i \in 1..Len(BUILTIN_EVENTS) : BUILTIN_EVENTS[i] \in Items([items |-> EVENTS])

C9_Witness ==
    /\ loadStatus = "ok"
    /\ Len(EVENTS) = 4
    /\ EVENTS[3].id = "1937_ohio_river_flood"
    /\ EVENTS[4].id = "2021_winter_floods"
    /\ EVENTS[1].id = "undated"
    /\ YearKey(EVENTS[3]) = YearKey(EVENTS[4])

\* C10: applying append_event_to_yaml_text with the same record to its own
\* result returns that result.
C10_UpsertIdempotent ==
    nContrib > 0 =>
        /\ ~AppendRaises(yaml_text, lastEvent)
        /\ append_event_to_yaml_text(yaml_text, lastEvent) = yaml_text

C10_Witness ==
    /\ nContrib = 1
    /\ extFile.doc = "list"
    /\ \E e \in Items(extFile) :
          /\ IsDict(e) /\ HasKey(e, "id")
          /\ e.id = lastEvent.id
          /\ e # lastEvent
    /\ Len(yaml_text.items) = 2
    /\ lastEvent \in Items(yaml_text)

\* An entry the merge skips: not a mapping, or a mapping without an id.
MalformedEntry(e) == ~IsDict(e) \/ ~HasKey(e, "id")

\* The external file is unparsable, is not a list at the top level, or is a
\* list with a malformed entry.
MalformedFile ==
    \/ extFile.doc \in {"invalid", "mapping"}
    \/ /\ extFile.doc = "list"
       /\ \E i \in 1..Len(extFile.items) : MalformedEntry(extFile.items[i])

\* C11: once load_events has run on a malformed external file it has returned
\* normally, with a warning if the file was unparsable; the list holds every
\* built-in id, and every built-in record when the file has no well-formed
\* entry.
C11_MalformedInputDoesNotAbort ==
    (loadStatus # "init" /\ MalformedFile) =>
        /\ Loaded
        /\ extFile.doc = "invalid" => loadStatus = "warned"
        /\ \A id \in BuiltinIds : \E i \in 1..Len(EVENTS) : EVENTS[i].id = id
        /\ ExtRecords = <<>> =>
              \A i \in 1..Len(BUILTIN_EVENTS) : BUILTIN_EVENTS[i] \in Items([items |-> EVENTS])

====
